---------------------------- MODULE Spec2Model ----------------------------
(* Model of paramify/client-success:                                        *)
(*   - evidence-manager/paramify_client.py: the retrying request layer      *)
(*     (ParamifyClient._request) and the bulk creation loop                 *)
(*     (ParamifyClient.create_evidence_bulk) with its helpers;              *)
(*   - control-mapping-updater/update_control_mapping.py: the master lookup *)
(*     and the target-row update pass of main.                              *)
(* Python strings are sequences of one-character strings, so that strip,    *)
(* lower, rstrip, split, join and sorted act on them as in the code.        *)
EXTENDS Integers, Sequences, FiniteSets, TLC

VARIABLES
    \* ---- one _request call (paramify_client.py:202-252)
    rq,                 \* attempt, last_error, slept, state, result, raised
    log,                \* responses the remote store gave, one per attempt
    applied,            \* times the remote store carried the request out
    \* ---- one create_evidence_bulk call (paramify_client.py:412-488)
    pc,                 \* "idle" | "start" | "loop" | "done" | "aborted"
    evidence_list, check_duplicates, allow_duplicates,
    remote,             \* records held by the remote store
    evidence_cache,     \* self._evidence_cache
    existing_evidence,  \* the local existing_evidence
    idx,                \* items processed so far (enumerate index - 1)
    results,            \* the results dictionary
    outcome,            \* per item: what the loop body did with it
    posts,              \* per item: POST attempts sent to the remote store
    uncaught,           \* exception that left create_evidence_bulk, or "none"
    progress_callback,  \* TRUE when a progress callback is supplied
    progress,           \* the ProgressInfo values the callback received
    wire,               \* per POST attempt, in order: the item it was sent for
    \* ---- one run of update_control_mapping.main (lines 147-246)
    rpc,                \* "idle" | "build" | "loop" | "done" | "failed"
    master_rows, target_rows, target_input, master_lookup,
    ridx,               \* target rows processed so far
    capabilities_updated, mappings_added, capabilities_not_in_master,
    pass,               \* 1 for the first run, 2 for the run on its own output
    first_output,       \* target_rows as the first run left them
    dry_run,            \* main's dry_run argument
    file_ops,           \* what was done to the files: "backup", "write"
    \* ---- one check_duplicate call (paramify_client.py:545-573)
    dpc,                \* "idle" | "call" | "done"
    candidate, existing_list,
    duplicate_found,    \* what check_duplicate returned
    \* ---- one normalize_capability_name call (update_control_mapping.py:127)
    npc,                \* "idle" | "call" | "done"
    name_in, name_out,
    \* ---- single calls on the client (paramify_client.py:258-344)
    cpc,                \* "idle" | "ready"
    calls,              \* calls made so far
    last_call,          \* the last call: op, ok, what it returned
    \* ---- one process using a client (main.py:237-255, test_connection,
    \*      associate_evidence)
    spc,                \* "idle" | "new" | "ready" | "exited"
    api_key, api_url,   \* self.api_key, self.api_url
    timeout,            \* self.timeout
    sent,               \* requests handed to the network, in order
    scalls              \* calls made so far and how each ended

varsReq == <<rq, log, applied>>
varsBulk == <<pc, evidence_list, check_duplicates, allow_duplicates, remote,
              evidence_cache, existing_evidence, idx, results, outcome, posts,
              uncaught, progress_callback, progress, wire>>
varsRecon == <<rpc, master_rows, target_rows, target_input, master_lookup, ridx,
               capabilities_updated, mappings_added, capabilities_not_in_master,
               pass, first_output, dry_run, file_ops>>
varsSess == <<spc, api_key, api_url, timeout, sent, scalls>>
varsAux == <<dpc, candidate, existing_list, duplicate_found,
             npc, name_in, name_out, cpc, calls, last_call, varsSess>>
vars == <<varsReq, varsBulk, varsRecon, varsAux>>

-----------------------------------------------------------------------------
(* Python str operations *)

\* Code points of the characters the model uses (order of sorted()).
Code(c) ==
    CASE c = "\n" -> 10
      [] c = " "  -> 32
      [] c = ":"  -> 58
      [] c = "A"  -> 65
      [] c = "B"  -> 66
      [] c = "X"  -> 88
      [] c = "Y"  -> 89
      [] c = "Z"  -> 90
      [] c = "a"  -> 97
      [] c = "b"  -> 98
      [] c = "r"  -> 114
      [] OTHER    -> 0

\* str.isspace for one character.
IsSpace(c) == c \in {" ", "\n"}

\* str.lower for one character.
LowerChar(c) ==
    CASE c = "A" -> "a"
      [] c = "B" -> "b"
      [] c = "X" -> "x"
      [] c = "Y" -> "y"
      [] c = "Z" -> "z"
      [] OTHER   -> c

Lower(s) == [i \in 1..Len(s) |-> LowerChar(s[i])]

\* str.upper for one character.
UpperChar(c) ==
    CASE c = "a" -> "A"
      [] c = "b" -> "B"
      [] c = "c" -> "C"
      [] c = "d" -> "D"
      [] c = "e" -> "E"
      [] c = "f" -> "F"
      [] c = "g" -> "G"
      [] c = "h" -> "H"
      [] c = "i" -> "I"
      [] c = "j" -> "J"
      [] c = "k" -> "K"
      [] c = "l" -> "L"
      [] c = "m" -> "M"
      [] c = "n" -> "N"
      [] c = "o" -> "O"
      [] c = "p" -> "P"
      [] c = "q" -> "Q"
      [] c = "r" -> "R"
      [] c = "s" -> "S"
      [] c = "t" -> "T"
      [] c = "u" -> "U"
      [] c = "v" -> "V"
      [] c = "w" -> "W"
      [] c = "x" -> "X"
      [] c = "y" -> "Y"
      [] c = "z" -> "Z"
      [] OTHER   -> c

Upper(s) == [i \in 1..Len(s) |-> UpperChar(s[i])]

RECURSIVE LStrip(_)
LStrip(s) == IF s # <<>> /\ IsSpace(Head(s)) THEN LStrip(Tail(s)) ELSE s

RECURSIVE RStrip(_)
RStrip(s) ==
    IF s # <<>> /\ IsSpace(s[Len(s)]) THEN RStrip(SubSeq(s, 1, Len(s) - 1)) ELSE s

\* str.strip()
Strip(s) == RStrip(LStrip(s))

\* Only one trailing colon is removed.
RStripOneColon(s) ==
    IF s # <<>> /\ s[Len(s)] = ":" THEN SubSeq(s, 1, Len(s) - 1) ELSE s

\* str.rstrip(':')
RECURSIVE RStripColon(_)
RStripColon(s) ==
    IF s # <<>> /\ s[Len(s)] = ":" THEN RStripColon(SubSeq(s, 1, Len(s) - 1)) ELSE s

\* str.split('\n')
RECURSIVE SplitLines(_)
SplitLines(s) ==
    IF \E i \in 1..Len(s) : s[i] = "\n"
    THEN LET i == CHOOSE k \in 1..Len(s) :
                      s[k] = "\n" /\ \A j \in 1..(k - 1) : s[j] # "\n"
         IN  <<SubSeq(s, 1, i - 1)>> \o SplitLines(SubSeq(s, i + 1, Len(s)))
    ELSE <<s>>

\* '\n'.join(seq)
RECURSIVE JoinLines(_)
JoinLines(ss) ==
    IF ss = <<>> THEN <<>>
    ELSE IF Len(ss) = 1 THEN ss[1]
    ELSE ss[1] \o <<"\n">> \o JoinLines(Tail(ss))

\* s < t for Python strings (lexicographic by code point).
RECURSIVE StrLess(_, _)
StrLess(s, t) ==
    IF t = <<>> THEN FALSE
    ELSE IF s = <<>> THEN TRUE
    ELSE IF Code(Head(s)) # Code(Head(t)) THEN Code(Head(s)) < Code(Head(t))
    ELSE StrLess(Tail(s), Tail(t))

\* sorted(set_of_str)
RECURSIVE Sorted(_)
Sorted(S) ==
    IF S = {} THEN <<>>
    ELSE LET m == CHOOSE x \in S : \A y \in S \ {x} : StrLess(x, y)
         IN  <<m>> \o Sorted(S \ {m})

-----------------------------------------------------------------------------
(* The retrying request layer: ParamifyClient._request *)

MAX_RETRIES == 3
RETRY_DELAY == 1

PyNone == {}
Some(x) == {x}

\* What one requests.request call can end in: an HTTP response, or one of the
\* three exception classes the handler tells apart.
Http(status, text) == [kind |-> "http", status |-> status, text |-> text]
ConnectionError == [kind |-> "conn", status |-> 0, text |-> ""]
Timeout == [kind |-> "timeout", status |-> 0, text |-> ""]
RequestException == [kind |-> "other", status |-> 0, text |-> ""]

\* response.raise_for_status(): HTTPError for 400 <= status < 600.
RaisesHTTPError(resp) ==
    resp.kind = "http" /\ 400 <= resp.status /\ resp.status < 600

\* bool(e.response): requests.Response.__bool__ returns self.ok, which is
\* False exactly when raise_for_status() raises. The handler's tests
\* "if e.response" and "e.response and ..." read this truth value.
ResponseTruthy(resp) == resp.kind = "http" /\ ~RaisesHTTPError(resp)

\* The APIError built in each except clause.
APIError(message, status_code, response_text) ==
    [type |-> "APIError", message |-> message,
     status_code |-> status_code, response_text |-> response_text]

HTTPAPIError(resp) ==
    APIError([text |-> "API request failed", detail |-> resp.status],
             IF ResponseTruthy(resp) THEN Some(resp.status) ELSE PyNone,
             IF ResponseTruthy(resp) THEN Some(resp.text) ELSE PyNone)

NetworkAPIError(resp) ==
    APIError([text |-> CASE resp.kind = "conn" -> "Connection error"
                         [] resp.kind = "timeout" -> "Request timed out"
                         [] OTHER -> "Request failed",
              detail |-> 0],
             PyNone, PyNone)

\* Line 236: "if e.response and 400 <= e.response.status_code < 500".
NoRetry(resp) ==
    ResponseTruthy(resp) /\ 400 <= resp.status /\ resp.status < 500

\* The delay is taken after every failed attempt, the last one included.
SleepsAlways(attempt) == TRUE

\* Line 249: "if attempt < self.MAX_RETRIES - 1".
SleepsAfter(attempt) == attempt < MAX_RETRIES - 1

\* Off-by-one loop bound: range(MAX_RETRIES + 1).
InRangeOneMore(attempt) == attempt < MAX_RETRIES + 1

\* Line 223: the loop runs while attempt is in range(MAX_RETRIES).
InRange(attempt) == attempt < MAX_RETRIES

NoError == [type |-> "none", message |-> [text |-> "", detail |-> 0],
            status_code |-> PyNone, response_text |-> PyNone]

\* State of a call before its first attempt (lines 217-221).
RequestStart ==
    [state |-> "running", attempt |-> 0, last_error |-> NoError,
     slept |-> <<>>, result |-> PyNone, raised |-> NoError]

\* last_error assigned only while it is still None: the first error is kept.
KeepFirstError(old, resp) ==
    IF old # NoError THEN old
    ELSE IF resp.kind = "http" THEN HTTPAPIError(resp) ELSE NetworkAPIError(resp)

\* Line 230 / 240 / 243 / 246: last_error is overwritten on every failure.
NextLastError(old, resp) ==
    IF resp.kind = "http" THEN HTTPAPIError(resp) ELSE NetworkAPIError(resp)

\* Line 227: "response.json() if response.text else {}".
ResponseJson(resp) == IF resp.text # "" THEN Some(resp.text) ELSE Some("{}")

\* One iteration of the for loop (lines 223-250) with the remote answering
\* resp, followed by line 252 when the range is exhausted.
AttemptStep(r, resp) ==
    IF resp.kind = "http" /\ ~RaisesHTTPError(resp)
    THEN [r EXCEPT !.state = "returned", !.attempt = r.attempt + 1,
                   !.result = ResponseJson(resp)]
    ELSE LET err == NextLastError(r.last_error, resp)
             att == r.attempt + 1
         IN  IF resp.kind = "http" /\ NoRetry(resp)
             THEN [r EXCEPT !.state = "raised", !.attempt = att,
                            !.last_error = err, !.raised = err]
             ELSE LET sl == IF SleepsAfter(r.attempt)
                            THEN Append(r.slept, RETRY_DELAY * (r.attempt + 1))
                            ELSE r.slept
                  IN  IF InRange(att)
                      THEN [r EXCEPT !.attempt = att, !.last_error = err,
                                     !.slept = sl]
                      ELSE [r EXCEPT !.state = "raised", !.attempt = att,
                                     !.last_error = err, !.slept = sl,
                                     !.raised = err]

\* A whole call against a scripted remote: script[k] answers attempt k.
RECURSIVE RunFrom(_, _)
RunFrom(r, script) ==
    IF r.state # "running" \/ script = <<>> THEN r
    ELSE RunFrom(AttemptStep(r, Head(script)), Tail(script))

RequestRun(script) == RunFrom(RequestStart, script)

\* Answers of the simulated remote store.
Responses ==
    {Http(200, "body"), Http(204, ""), Http(401, "denied"), Http(404, "missing"),
     Http(500, "oops"), Http(503, "busy"),
     ConnectionError, Timeout, RequestException}

IdleBulk ==
    /\ pc = "idle" /\ evidence_list = <<>> /\ check_duplicates = FALSE
    /\ allow_duplicates = FALSE /\ remote = <<>> /\ evidence_cache = PyNone
    /\ existing_evidence = <<>> /\ idx = 0 /\ results = <<>> /\ outcome = <<>>
    /\ posts = <<>> /\ uncaught = "none"
    /\ progress_callback = FALSE /\ progress = <<>> /\ wire = <<>>

IdleRecon ==
    /\ rpc = "idle" /\ master_rows = <<>> /\ target_rows = <<>>
    /\ target_input = <<>> /\ master_lookup = <<>> /\ ridx = 0
    /\ capabilities_updated = 0 /\ mappings_added = 0
    /\ capabilities_not_in_master = <<>> /\ pass = 0 /\ first_output = <<>>
    /\ dry_run = FALSE /\ file_ops = <<>>

IdleRequest == rq = RequestStart /\ log = <<>> /\ applied = 0

NoCall == [op |-> "none", ok |-> FALSE, returned |-> <<>>]

IdleDuplicate ==
    /\ dpc = "idle" /\ candidate = <<>> /\ existing_list = <<>>
    /\ duplicate_found = PyNone

IdleNormalize == npc = "idle" /\ name_in = <<>> /\ name_out = <<>>

IdleClient == cpc = "idle" /\ calls = 0 /\ last_call = NoCall

\* Line 129: self.timeout = self.DEFAULT_TIMEOUT
DEFAULT_TIMEOUT == 30
CONNECTION_TEST_TIMEOUT == 10

IdleSession ==
    /\ spc = "idle" /\ api_key = PyNone /\ api_url = PyNone
    /\ timeout = DEFAULT_TIMEOUT /\ sent = <<>> /\ scalls = <<>>

IdleAux == IdleDuplicate /\ IdleNormalize /\ IdleClient /\ IdleSession

\* ---- specification of one _request call
InitRequest == IdleRequest /\ IdleBulk /\ IdleRecon /\ IdleAux

\* What the remote store may have done with a request it answered resp to
\* (1: carried out, 0: not): a 2xx answer means it was carried out, a 4xx
\* answer that it was rejected; behind a 5xx answer, a timeout or a broken
\* connection the request may or may not have been carried out.
Applies(resp) ==
    IF resp.kind = "http" /\ ~RaisesHTTPError(resp) THEN {1}
    ELSE IF resp.kind = "http" /\ resp.status < 500 THEN {0}
    ELSE {0, 1}

\* requests.request sends the pending attempt and the remote store answers.
Attempt ==
    /\ rq.state = "running"
    /\ \E resp \in Responses :
          /\ rq' = AttemptStep(rq, resp)
          /\ log' = Append(log, resp)
          /\ \E a \in Applies(resp) : applied' = applied + a
    /\ UNCHANGED <<varsBulk, varsRecon, varsAux>>

NextRequest == Attempt

SpecRequest == InitRequest /\ [][NextRequest]_vars

-----------------------------------------------------------------------------
(* The control mapping updater: update_control_mapping.py *)

\* Column positions found by find_column_index in the header row
\* "Solution Capability", <other column>, "Suggested Mappings".
CapIdx == 0
MappingIdx == 2

\* row[i] for a Python index i.
Cell(row, i) == row[i + 1]

\* parse_mappings
parse_mappings(mapping_str) ==
    IF mapping_str = <<>> \/ Strip(mapping_str) = <<>> THEN {}
    ELSE LET parts == SplitLines(mapping_str)
         IN  {Strip(parts[i]) : i \in {j \in 1..Len(parts) : Strip(parts[j]) # <<>>}}

\* normalize_capability_name
normalize_capability_name(name) == Strip(RStripColon(Strip(name)))

\* "row[mapping_idx] if len(row) > mapping_idx else ''"
MappingCell(row) == IF Len(row) > MappingIdx THEN Cell(row, MappingIdx) ELSE <<>>

\* A later master row replaces the tags of an earlier one.
OverwriteMappings(old, new) == new

\* Line 141: lookup[cap_name].update(mappings)
MergeMappings(old, new) == old \cup new

\* One iteration of build_master_lookup's loop (lines 136-143).
LookupStep(lookup, row) ==
    IF Len(row) > CapIdx
    THEN LET cap_name == normalize_capability_name(Cell(row, CapIdx))
         IN  IF cap_name # <<>>
             THEN LET mappings == parse_mappings(MappingCell(row))
                  IN  IF cap_name \in DOMAIN lookup
                      THEN [lookup EXCEPT ![cap_name] = MergeMappings(@, mappings)]
                      ELSE (cap_name :> mappings) @@ lookup
             ELSE lookup
    ELSE lookup

RECURSIVE LookupFrom(_, _)
LookupFrom(lookup, rows) ==
    IF rows = <<>> THEN lookup
    ELSE LookupFrom(LookupStep(lookup, Head(rows)), Tail(rows))

\* build_master_lookup; the empty dictionary is the function of empty domain.
build_master_lookup(rows) == LookupFrom(<<>>, rows)

\* The key is appended on every occurrence.
AlwaysRecordUnmatched(list, cap_name) == Append(list, cap_name)

\* Lines 199-200: append the key unless it is already listed.
RecordUnmatched(list, cap_name) ==
    IF \E i \in 1..Len(list) : list[i] = cap_name THEN list
    ELSE Append(list, cap_name)

\* Only the missing mappings are written back.
OnlyMissing(current_mappings, missing_mappings) == missing_mappings

\* Line 211: all_mappings = current_mappings | missing_mappings
AllMappings(current_mappings, missing_mappings) ==
    current_mappings \cup missing_mappings

\* The merged tags joined by a blank instead of a line break.
JoinBlank(all_mappings) ==
    LET ss == Sorted(all_mappings)
        F[i \in 0..Len(ss)] ==
            IF i = 0 THEN <<>>
            ELSE IF i = 1 THEN ss[1] ELSE F[i - 1] \o <<" ">> \o ss[i]
    IN  F[Len(ss)]

\* Line 212: '\n'.join(sorted(all_mappings))
WriteMappings(all_mappings) == JoinLines(Sorted(all_mappings))

\* The row is rewritten whether or not a mapping is missing.
AlwaysUpdate(missing_mappings) == TRUE

\* Line 207: "if missing_mappings:"
NeedsUpdate(missing_mappings) == missing_mappings # {}

\* Every rewritten row adds one to the count of mappings.
AddedOne(missing_mappings) == 1

\* Line 215: mappings_added += len(missing_mappings)
MappingsAdded(missing_mappings) == Cardinality(missing_mappings)

\* No mapping is ever found missing.
MissingNone(master_mappings, current_mappings) == {}

\* Line 205: missing_mappings = master_mappings - current_mappings
MissingMappings(master_mappings, current_mappings) ==
    master_mappings \ current_mappings

\* Lines 208-209: pad the row until it has a mappings column.
RECURSIVE PadRow(_)
PadRow(row) == IF Len(row) <= MappingIdx THEN PadRow(Append(row, <<>>)) ELSE row

\* One iteration of main's loop over target_rows (lines 188-217) on the state
\* st = [rows, updated, added, unmatched], for the row at position i (1-based).
TargetRowStep(st, i, lookup) ==
    LET row == st.rows[i] IN
    IF Len(row) <= CapIdx THEN st
    ELSE LET cap_name_raw == Strip(Cell(row, CapIdx)) IN
         IF cap_name_raw = <<>> THEN st
         ELSE LET cap_name == normalize_capability_name(cap_name_raw) IN
              IF cap_name \notin DOMAIN lookup
              THEN [st EXCEPT !.unmatched = RecordUnmatched(@, cap_name)]
              ELSE LET current_mappings == parse_mappings(MappingCell(row))
                       master_mappings == lookup[cap_name]
                       missing_mappings == MissingMappings(master_mappings,
                                                           current_mappings)
                   IN  IF NeedsUpdate(missing_mappings)
                       THEN [st EXCEPT
                               !.rows[i] =
                                   [PadRow(row) EXCEPT ![MappingIdx + 1] =
                                       WriteMappings(AllMappings(current_mappings,
                                                                 missing_mappings))],
                               !.updated = @ + 1,
                               !.added = @ + MappingsAdded(missing_mappings)]
                       ELSE st

\* ---- inputs
MaxMasterRows == 2
MaxTargetRows == 2

Other == <<"o">>

MasterPool ==
    { << <<"A", ":">>, Other, <<"X">> >>,
      << <<" ", "A", " ">>, Other, <<"Y", "\n", "\n", " ", "Z", " ">> >>,
      << <<"B">>, Other, <<"Y", "\n", "X">> >>,
      << <<"A">> >>,
      << <<" ", ":">>, Other, <<"X">> >> }

TargetPool ==
    { << <<"A", ":", " ">>, Other, <<"Z", "\n", "Y">> >>,
      << <<"B">>, Other, <<>> >>,
      << <<"A">> >>,
      << <<"a">>, Other, <<"X">> >>,
      << <<"a", ":">>, Other, <<"Y">> >>,
      << <<" ">>, Other, <<"X">> >>,
      << <<":">>, Other, <<"X">> >> }

SeqsUpTo(S, n) == UNION {[1..k -> S] : k \in 0..n}

\* ---- specification of the updater run, then a second run on its output
InitReconcile ==
    /\ IdleRequest /\ IdleBulk /\ IdleAux
    /\ rpc = "build"
    /\ master_rows \in SeqsUpTo(MasterPool, MaxMasterRows)
    /\ target_rows \in SeqsUpTo(TargetPool, MaxTargetRows)
    /\ target_input = target_rows
    /\ master_lookup = <<>>
    /\ ridx = 0
    /\ capabilities_updated = 0 /\ mappings_added = 0
    /\ capabilities_not_in_master = <<>>
    /\ pass = 1
    /\ first_output = <<>>
    /\ dry_run = FALSE
    /\ file_ops = <<>>

\* Lines 166-185: the master lookup is built and the statistics start at 0.
BuildLookup ==
    /\ rpc = "build"
    /\ master_lookup' = build_master_lookup(master_rows)
    /\ capabilities_updated' = 0 /\ mappings_added' = 0
    /\ capabilities_not_in_master' = <<>>
    /\ ridx' = 0
    /\ rpc' = "loop"
    /\ UNCHANGED <<master_rows, target_rows, target_input, pass, first_output,
                   dry_run, file_ops>>
    /\ UNCHANGED <<varsReq, varsBulk, varsAux>>

\* Lines 188-217: the loop body for the next target row.
ProcessTargetRow ==
    /\ rpc = "loop"
    /\ ridx < Len(target_rows)
    /\ LET st == TargetRowStep([rows |-> target_rows,
                                updated |-> capabilities_updated,
                                added |-> mappings_added,
                                unmatched |-> capabilities_not_in_master],
                               ridx + 1, master_lookup)
       IN  /\ target_rows' = st.rows
           /\ capabilities_updated' = st.updated
           /\ mappings_added' = st.added
           /\ capabilities_not_in_master' = st.unmatched
    /\ ridx' = ridx + 1
    /\ UNCHANGED <<rpc, master_rows, target_input, master_lookup, pass,
                   first_output, dry_run, file_ops>>
    /\ UNCHANGED <<varsReq, varsBulk, varsAux>>

\* The file is saved whenever a row was updated, dry run or not.
SaveEvenDry(updated, dry) == updated > 0

\* Lines 220-221 and 226: "if capabilities_updated > 0" and not dry_run.
ShouldSave(updated, dry) == updated > 0 /\ ~dry

\* Lines 219-246: the loop is over; unless it is a dry run or nothing was
\* updated, create_backup copies the target file (lines 82-91) and save_csv
\* then overwrites it; a copy that fails leaves main before save_csv.
FinishRun ==
    /\ rpc = "loop"
    /\ ridx = Len(target_rows)
    /\ IF ShouldSave(capabilities_updated, dry_run)
       THEN \E copied \in BOOLEAN :
               IF copied
               THEN /\ file_ops' = file_ops \o <<"backup", "write">>
                    /\ rpc' = "done"
               ELSE /\ file_ops' = file_ops
                    /\ rpc' = "failed"
       ELSE /\ file_ops' = file_ops
            /\ rpc' = "done"
    /\ UNCHANGED <<master_rows, target_rows, target_input, master_lookup, ridx,
                   capabilities_updated, mappings_added,
                   capabilities_not_in_master, pass, first_output, dry_run>>
    /\ UNCHANGED <<varsReq, varsBulk, varsAux>>

\* The tool is run again on the file the first run left, with the same master.
RunAgain ==
    /\ rpc = "done"
    /\ pass = 1
    /\ pass' = 2
    /\ first_output' = target_rows
    /\ rpc' = "build"
    /\ UNCHANGED <<master_rows, target_rows, target_input, master_lookup, ridx,
                   capabilities_updated, mappings_added,
                   capabilities_not_in_master, dry_run, file_ops>>
    /\ UNCHANGED <<varsReq, varsBulk, varsAux>>

NextReconcile == BuildLookup \/ ProcessTargetRow \/ FinishRun \/ RunAgain

SpecReconcile == InitReconcile /\ [][NextReconcile]_vars

\* ---- specification of one run, dry or not, up to the saving of the result
MaxSaveMaster == 1
MaxSaveTarget == 2

InitSave ==
    /\ IdleRequest /\ IdleBulk /\ IdleAux
    /\ rpc = "build"
    /\ master_rows \in SeqsUpTo(MasterPool, MaxSaveMaster)
    /\ target_rows \in SeqsUpTo(TargetPool, MaxSaveTarget)
    /\ target_input = target_rows
    /\ master_lookup = <<>>
    /\ ridx = 0
    /\ capabilities_updated = 0 /\ mappings_added = 0
    /\ capabilities_not_in_master = <<>>
    /\ pass = 1
    /\ first_output = <<>>
    /\ dry_run \in BOOLEAN
    /\ file_ops = <<>>

NextSave == BuildLookup \/ ProcessTargetRow \/ FinishRun

SpecSave == InitSave /\ [][NextSave]_vars

-----------------------------------------------------------------------------
(* The bulk sync engine: ParamifyClient.create_evidence_bulk and helpers *)

\* A dictionary entry: key absent, value None, or a str value.
Absent == [kind |-> "absent", s |-> <<>>]
NoneVal == [kind |-> "none", s |-> <<>>]
Str(s) == [kind |-> "str", s |-> s]

\* Python truth value of data[key] for "key in data and data[key]".
Truthy(v) == v.kind = "str" /\ v.s # <<>>

\* get_reference_id: first truthy of referenceid, reference_id, id, stripped.
get_reference_id(data) ==
    IF Truthy(data.referenceid) THEN Some(Strip(data.referenceid.s))
    ELSE IF Truthy(data.reference_id) THEN Some(Strip(data.reference_id.s))
    ELSE IF Truthy(data.id) THEN Some(Strip(data.id.s))
    ELSE PyNone

\* get_field_value(data, "name")
get_field_value(v) == IF Truthy(v) THEN Some(v.s) ELSE PyNone

\* The comparison key compares names as they are written.
NameKeyCaseSensitive(s) == Strip(s)

\* Lines 560 and 570: name.lower().strip()
NameKey(s) == Strip(Lower(s))

\* Lines 563-573: the loop of check_duplicate over existing, from position i.
RECURSIVE FirstDuplicate(_, _, _, _)
FirstDuplicate(existing, i, name, reference_id) ==
    IF i > Len(existing) THEN PyNone
    ELSE LET e == existing[i] IN
         IF /\ reference_id # PyNone /\ reference_id # Some(<<>>)
            /\ Truthy(e.referenceId)
            /\ Some(Strip(e.referenceId.s)) = reference_id
         THEN Some(e)
         ELSE IF NameKey(e.name) = name THEN Some(e)
         ELSE FirstDuplicate(existing, i + 1, name, reference_id)

\* check_duplicate with an explicit existing list (lines 559-573).
\* normalized.get("name", "").lower() raises AttributeError when the name
\* key is present with the value None.
check_duplicate(evidence_data, existing) ==
    IF evidence_data.name.kind = "none"
    THEN [raised |-> "AttributeError", found |-> PyNone]
    ELSE [raised |-> "none",
          found |-> FirstDuplicate(existing, 1,
                       IF evidence_data.name.kind = "absent" THEN <<>>
                       ELSE NameKey(evidence_data.name.s),
                       get_reference_id(evidence_data))]

\* _build_evidence_payload, the fields the remote record keeps.
build_evidence_payload(evidence_data) ==
    [name |-> get_field_value(evidence_data.name),
     referenceId |-> get_reference_id(evidence_data)]

\* evidence_data.get("name", "N/A")
DisplayName(evidence_data) ==
    IF evidence_data.name.kind = "absent" THEN Str(<<"N", "/", "A">>)
    ELSE evidence_data.name

\* The record the remote store keeps for an accepted POST /evidence.
NewRecord(store, payload) ==
    [id |-> IF store = <<>> THEN 1
            ELSE 1 + CHOOSE m \in {store[i].id : i \in 1..Len(store)} :
                         \A i \in 1..Len(store) : store[i].id <= m,
     name |-> CHOOSE n \in payload.name : TRUE,
     referenceId |-> IF payload.referenceId = PyNone THEN Absent
                     ELSE Str(CHOOSE x \in payload.referenceId : TRUE)]

\* Lines 431-439.
NewResults(n) ==
    [total |-> n, created |-> 0, skipped |-> 0, failed |-> 0,
     created_items |-> <<>>, skipped_items |-> <<>>, failed_items |-> <<>>]

\* Lines 461-466.
RecordSkipped(res, name, duplicate) ==
    [res EXCEPT !.skipped = @ + 1,
                !.skipped_items = Append(@, [name |-> name, reason |-> "duplicate",
                                             existing_id |-> duplicate.id])]

\* The created item is put in front of the list.
RecordCreatedFirst(res, result) ==
    [res EXCEPT !.created = @ + 1, !.created_items = <<result>> \o @]

\* Lines 473-474.
RecordCreated(res, result) ==
    [res EXCEPT !.created = @ + 1, !.created_items = Append(@, result)]

\* The failure is listed but not counted.
RecordFailedUncounted(res, name, err) ==
    [res EXCEPT !.failed_items = Append(@, [name |-> name, error |-> err])]

\* Lines 480-484.
RecordFailed(res, name, err) ==
    [res EXCEPT !.failed = @ + 1,
                !.failed_items = Append(@, [name |-> name, error |-> err])]

\* "if progress_callback: progress_callback(ProgressInfo(...))"
\* (lines 453-454, 467-468, 476-477, 485-486).
Notify(callback, seen, current, total, item_name, status) ==
    IF callback
    THEN Append(seen, [current |-> current, total |-> total,
                       item_name |-> item_name, status |-> status])
    ELSE seen

\* The duplicate check is made even against an empty list.
AlwaysChecked(existing) == TRUE

\* Line 458: "if existing_evidence:"
HasExisting(existing) == existing # <<>>

\* str(e) of the ValidationError of line 307.
NameRequired == [text |-> "Evidence record must have a 'name' field", detail |-> 0]

\* ---- inputs
MaxItems == 3

BulkResponses == {Http(200, "body"), Http(404, "missing"), Http(503, "busy"), Timeout}

Scripts == [1..MAX_RETRIES -> BulkResponses]

\* Every way one _request call can end against such a remote.
RequestOutcomes == {RequestRun(script) : script \in Scripts}

Item(name, referenceid) ==
    [name |-> name, referenceid |-> referenceid, reference_id |-> Absent, id |-> Absent]

ItemPool ==
    { Item(Str(<<"b">>), Absent),
      Item(Str(<<" ", "A">>), Absent),
      Item(Absent, Absent),
      Item(NoneVal, Absent) }

RemoteChoices ==
    { <<>>,
      << [id |-> 1, name |-> <<"a", " ">>, referenceId |-> Absent] >> }

\* ---- specification of one create_evidence_bulk call
InitBulk ==
    /\ IdleRequest /\ IdleRecon /\ IdleAux
    /\ pc = "start"
    /\ evidence_list \in SeqsUpTo(ItemPool, MaxItems)
    /\ check_duplicates \in BOOLEAN
    /\ allow_duplicates \in BOOLEAN
    /\ remote \in RemoteChoices
    /\ evidence_cache = PyNone
    /\ existing_evidence = <<>>
    /\ idx = 0
    /\ results = NewResults(Len(evidence_list))
    /\ outcome = <<>>
    /\ posts = <<>>
    /\ uncaught = "none"
    /\ progress_callback \in BOOLEAN
    /\ progress = <<>>
    /\ wire = <<>>

\* Lines 441-447: get_all_evidence() through _request, APIError swallowed.
\* data.get("evidences", []) of a body-less 2xx answer is [].
FetchExisting ==
    /\ pc = "start"
    /\ IF check_duplicates
       THEN \E r \in RequestOutcomes :
               /\ r.state # "running"
               /\ IF r.state = "returned"
                  THEN /\ evidence_cache' = Some(remote)
                       /\ existing_evidence' = remote
                  ELSE UNCHANGED <<evidence_cache, existing_evidence>>
       ELSE UNCHANGED <<evidence_cache, existing_evidence>>
    /\ pc' = "loop"
    /\ UNCHANGED <<evidence_list, check_duplicates, allow_duplicates, remote, idx,
                   results, outcome, posts, uncaught, progress_callback,
                   progress, wire>>
    /\ UNCHANGED <<varsReq, varsRecon, varsAux>>

\* Lines 449-486: the loop body for the next item, with the whole
\* create_evidence call (payload, validation, _request with its retries).
ProcessItem ==
    /\ pc = "loop"
    /\ idx < Len(evidence_list)
    /\ LET evidence_data == evidence_list[idx + 1]
           name == DisplayName(evidence_data)
           dup == IF HasExisting(existing_evidence)
                  THEN check_duplicate(evidence_data, existing_evidence)
                  ELSE [raised |-> "none", found |-> PyNone]
           payload == build_evidence_payload(evidence_data)
           started == Notify(progress_callback, progress, idx + 1,
                             Len(evidence_list), name, "processing")
           ended(status) == Notify(progress_callback, started, idx + 1,
                                   Len(evidence_list), name, status)
       IN
       IF dup.raised # "none"
       THEN \* not caught by "except (ValidationError, APIError)"
            /\ pc' = "aborted"
            /\ uncaught' = dup.raised
            /\ progress' = started
            /\ UNCHANGED <<idx, results, outcome, posts, remote, wire>>
       ELSE IF dup.found # PyNone /\ ~allow_duplicates
       THEN LET duplicate == CHOOSE d \in dup.found : TRUE IN
            /\ results' = RecordSkipped(results, name, duplicate)
            /\ outcome' = Append(outcome, [kind |-> "skipped",
                                           existing_id |-> Some(duplicate.id),
                                           error |-> NoError.message])
            /\ posts' = Append(posts, 0)
            /\ idx' = idx + 1
            /\ progress' = ended("skipped")
            /\ UNCHANGED <<pc, uncaught, remote, wire>>
       ELSE IF payload.name = PyNone
       THEN /\ results' = RecordFailed(results, name, NameRequired)
            /\ outcome' = Append(outcome, [kind |-> "failed", existing_id |-> PyNone,
                                           error |-> NameRequired])
            /\ posts' = Append(posts, 0)
            /\ idx' = idx + 1
            /\ progress' = ended("failed")
            /\ UNCHANGED <<pc, uncaught, remote, wire>>
       ELSE \E r \in RequestOutcomes :
               /\ r.state # "running"
               /\ posts' = Append(posts, r.attempt)
               /\ wire' = wire \o [k \in 1..r.attempt |-> idx + 1]
               /\ idx' = idx + 1
               /\ UNCHANGED <<pc, uncaught>>
               /\ IF r.state = "returned"
                  THEN LET result == NewRecord(remote, payload) IN
                       /\ remote' = Append(remote, result)
                       /\ results' = RecordCreated(results, result)
                       /\ outcome' = Append(outcome, [kind |-> "created",
                                                      existing_id |-> PyNone,
                                                      error |-> NoError.message])
                       /\ progress' = ended("success")
                  ELSE /\ remote' = remote
                       /\ results' = RecordFailed(results, name, r.raised.message)
                       /\ outcome' = Append(outcome, [kind |-> "failed",
                                                      existing_id |-> PyNone,
                                                      error |-> r.raised.message])
                       /\ progress' = ended("failed")
    /\ UNCHANGED <<evidence_list, check_duplicates, allow_duplicates,
                   evidence_cache, existing_evidence, progress_callback>>
    /\ UNCHANGED <<varsReq, varsRecon, varsAux>>

\* Line 488: return results.
ReturnResults ==
    /\ pc = "loop"
    /\ idx = Len(evidence_list)
    /\ pc' = "done"
    /\ UNCHANGED <<evidence_list, check_duplicates, allow_duplicates, remote,
                   evidence_cache, existing_evidence, idx, results, outcome,
                   posts, uncaught, progress_callback, progress, wire>>
    /\ UNCHANGED <<varsReq, varsRecon, varsAux>>

NextBulk == FetchExisting \/ ProcessItem \/ ReturnResults

SpecBulk == InitBulk /\ [][NextBulk]_vars

-----------------------------------------------------------------------------
(* One check_duplicate call on an explicit existing list *)

MaxExisting == 3

CandidatePool ==
    { Item(Str(<<"b">>), Str(<<"r", " ">>)),
      Item(Str(<<" ", "A">>), Absent),
      Item(Str(<<"b">>), Absent),
      Item(Absent, Str(<<"r">>)),
      Item(NoneVal, Str(<<"r">>)) }

ExistingPool ==
    { [id |-> 1, name |-> <<"B", " ">>, referenceId |-> Absent],
      [id |-> 2, name |-> <<"a">>, referenceId |-> Str(<<" ", "r">>)],
      [id |-> 3, name |-> <<"Z">>, referenceId |-> Str(<<"r">>)],
      [id |-> 4, name |-> <<"Z">>, referenceId |-> Absent] }

\* Lists of distinct remote records.
DistinctSeqs(S, n) ==
    {q \in SeqsUpTo(S, n) : \A i, j \in 1..Len(q) : i # j => q[i] # q[j]}

InitDuplicate ==
    /\ IdleRequest /\ IdleBulk /\ IdleRecon /\ IdleNormalize /\ IdleClient
    /\ IdleSession
    /\ dpc = "call"
    /\ candidate \in CandidatePool
    /\ existing_list \in DistinctSeqs(ExistingPool, MaxExisting)
    /\ duplicate_found = PyNone

\* check_duplicate(candidate, existing_list) returns or raises.
CheckDuplicate ==
    /\ dpc = "call"
    /\ LET d == check_duplicate(candidate, existing_list) IN
          /\ dpc' = IF d.raised = "none" THEN "done" ELSE "raised"
          /\ duplicate_found' = d.found
    /\ UNCHANGED <<candidate, existing_list, npc, name_in, name_out,
                   cpc, calls, last_call, varsSess>>
    /\ UNCHANGED <<varsReq, varsBulk, varsRecon>>

NextDuplicate == CheckDuplicate

SpecDuplicate == InitDuplicate /\ [][NextDuplicate]_vars

-----------------------------------------------------------------------------
(* One call of normalize_capability_name (update_control_mapping.py:127-129) *)

\* ---- specification of one normalize_capability_name call
MaxNameLen == 3

NameChars == {"A", "a", ":", " "}

InitNormalize ==
    /\ IdleRequest /\ IdleBulk /\ IdleRecon /\ IdleDuplicate /\ IdleClient
    /\ IdleSession
    /\ npc = "ready"
    /\ name_in \in SeqsUpTo(NameChars, MaxNameLen)
    /\ name_out = <<>>

\* Lines 127-129.
Normalize ==
    /\ npc = "ready"
    /\ name_out' = normalize_capability_name(name_in)
    /\ npc' = "done"
    /\ UNCHANGED <<name_in, dpc, candidate, existing_list, duplicate_found,
                   cpc, calls, last_call, varsSess>>
    /\ UNCHANGED <<varsReq, varsBulk, varsRecon>>

NextNormalize == Normalize

SpecNormalize == InitNormalize /\ [][NextNormalize]_vars

-----------------------------------------------------------------------------
(* Single calls on one client: get_all_evidence, create_evidence,           *)
(* update_evidence, delete_evidence (paramify_client.py:258-344)            *)

MaxCalls == 3

\* The remote record after an accepted PATCH /evidence/{id}.
Patched(rec, payload) ==
    [rec EXCEPT !.name = IF payload.name = PyNone THEN @
                         ELSE CHOOSE n \in payload.name : TRUE]

\* The store without its k-th record (an accepted DELETE /evidence/{id}).
Without(store, k) ==
    [i \in 1..(Len(store) - 1) |-> IF i < k THEN store[i] ELSE store[i + 1]]

InitClient ==
    /\ IdleRequest /\ IdleRecon /\ IdleDuplicate /\ IdleNormalize /\ IdleSession
    /\ pc = "idle" /\ evidence_list = <<>> /\ check_duplicates = FALSE
    /\ allow_duplicates = FALSE /\ existing_evidence = <<>> /\ idx = 0
    /\ results = <<>> /\ outcome = <<>> /\ posts = <<>> /\ uncaught = "none"
    /\ progress_callback = FALSE /\ progress = <<>> /\ wire = <<>>
    /\ remote \in RemoteChoices
    /\ evidence_cache = PyNone
    /\ cpc = "ready" /\ calls = 0 /\ last_call = NoCall

ClientFrame ==
    /\ UNCHANGED <<pc, evidence_list, check_duplicates, allow_duplicates,
                   existing_evidence, idx, results, outcome, posts, uncaught,
                   progress_callback, progress, wire>>
    /\ UNCHANGED <<dpc, candidate, existing_list, duplicate_found,
                   npc, name_in, name_out, cpc, varsSess>>
    /\ UNCHANGED <<varsReq, varsRecon>>

\* get_all_evidence(use_cache), lines 268-273.
GetAllEvidence ==
    /\ cpc = "ready" /\ calls < MaxCalls
    /\ calls' = calls + 1
    /\ \E use_cache \in BOOLEAN :
          IF use_cache /\ evidence_cache # PyNone
          THEN /\ last_call' = [op |-> "get_all", ok |-> TRUE,
                                returned |-> CHOOSE c \in evidence_cache : TRUE]
               /\ UNCHANGED <<evidence_cache, remote>>
          ELSE \E r \in RequestOutcomes :
                  /\ r.state # "running"
                  /\ IF r.state = "returned"
                     THEN /\ evidence_cache' = Some(remote)
                          /\ last_call' = [op |-> "get_all", ok |-> TRUE,
                                           returned |-> remote]
                     ELSE /\ UNCHANGED evidence_cache
                          /\ last_call' = [op |-> "get_all", ok |-> FALSE,
                                           returned |-> <<>>]
                  /\ UNCHANGED remote
    /\ ClientFrame

\* create_evidence(evidence_data), lines 304-309.
CreateEvidence ==
    /\ cpc = "ready" /\ calls < MaxCalls
    /\ calls' = calls + 1
    /\ \E evidence_data \in ItemPool :
          LET payload == build_evidence_payload(evidence_data) IN
          IF payload.name = PyNone
          THEN /\ last_call' = [op |-> "create", ok |-> FALSE, returned |-> <<>>]
               /\ UNCHANGED remote
          ELSE \E r \in RequestOutcomes :
                  /\ r.state # "running"
                  /\ IF r.state = "returned"
                     THEN /\ remote' = Append(remote, NewRecord(remote, payload))
                          /\ last_call' = [op |-> "create", ok |-> TRUE,
                                           returned |-> <<>>]
                     ELSE /\ UNCHANGED remote
                          /\ last_call' = [op |-> "create", ok |-> FALSE,
                                           returned |-> <<>>]
    /\ UNCHANGED evidence_cache
    /\ ClientFrame

\* update_evidence(evidence_id, evidence_data), lines 325-326.
UpdateEvidence ==
    /\ cpc = "ready" /\ calls < MaxCalls
    /\ calls' = calls + 1
    /\ \E k \in 1..Len(remote), evidence_data \in ItemPool :
          LET payload == build_evidence_payload(evidence_data) IN
          \E r \in RequestOutcomes :
              /\ r.state # "running"
              /\ IF r.state = "returned"
                 THEN /\ remote' = [remote EXCEPT ![k] = Patched(@, payload)]
                      /\ last_call' = [op |-> "update", ok |-> TRUE,
                                       returned |-> <<>>]
                 ELSE /\ UNCHANGED remote
                      /\ last_call' = [op |-> "update", ok |-> FALSE,
                                       returned |-> <<>>]
    /\ UNCHANGED evidence_cache
    /\ ClientFrame

\* Line 343: self._evidence_cache = None
InvalidateCache(cache) == PyNone

\* delete_evidence(evidence_id), lines 341-344.
DeleteEvidence ==
    /\ cpc = "ready" /\ calls < MaxCalls
    /\ calls' = calls + 1
    /\ \E k \in 1..Len(remote) :
          \E r \in RequestOutcomes :
              /\ r.state # "running"
              /\ IF r.state = "returned"
                 THEN /\ remote' = Without(remote, k)
                      /\ evidence_cache' = InvalidateCache(evidence_cache)
                      /\ last_call' = [op |-> "delete", ok |-> TRUE,
                                       returned |-> <<>>]
                 ELSE /\ UNCHANGED <<remote, evidence_cache>>
                      /\ last_call' = [op |-> "delete", ok |-> FALSE,
                                       returned |-> <<>>]
    /\ ClientFrame

NextClient == GetAllEvidence \/ CreateEvidence \/ UpdateEvidence \/ DeleteEvidence

SpecClient == InitClient /\ [][NextClient]_vars

-----------------------------------------------------------------------------
(* One process using a client: the start of the command line tools          *)
(* (main.py:237-255, menu.py:1266-1280, get_evidence.py:23-41),             *)
(* test_connection and associate_evidence (paramify_client.py:146-200,      *)
(* 346-379)                                                                 *)

\* "not self.api_key": None and the empty string are both missing.
Missing(v) == v = PyNone \/ v = Some("")

\* Nothing is checked: every configuration passes.
ConfigUnchecked(key, url) == "none"

\* validate_config (lines 146-160): the exception it raises, or "none".
validate_config(key, url) ==
    IF Missing(key) \/ Missing(url) THEN "ValidationError" ELSE "none"

\* The probe timeout stays in force after the probe.
KeepProbeTimeout(original_timeout, current) == current

\* Line 200, in the finally clause: self.timeout = original_timeout
RestoreTimeout(original_timeout, current) == original_timeout

\* What requests.get can answer to the probe.
ProbeAnswers ==
    {Http(200, "body"), Http(401, "denied"), Http(403, "forbidden"),
     Http(500, "oops"), Timeout, ConnectionError, RequestException}

\* How test_connection ends on an answer (lines 173-198): the exception that
\* leaves it ("none" when it returns) and the status code the APIError holds.
ProbeEnd(answer) ==
    IF answer.kind = "http" /\ ~RaisesHTTPError(answer)
    THEN [raised |-> "none", status_code |-> PyNone]
    ELSE IF answer.kind = "timeout" \/ answer.kind = "conn"
    THEN [raised |-> "APIError", status_code |-> PyNone]
    ELSE IF answer.kind = "http"
    THEN [raised |-> "APIError", status_code |-> Some(answer.status)]
    ELSE [raised |-> "RequestException", status_code |-> PyNone]

\* test_connection (lines 162-200) on a client st = [timeout, sent], with
\* the remote store answering the probe, if one is sent, by answer.
test_connection(st, key, url, answer) ==
    IF validate_config(key, url) # "none"
    THEN [timeout |-> st.timeout, sent |-> st.sent,
          raised |-> validate_config(key, url), status_code |-> PyNone]
    ELSE LET original_timeout == st.timeout
             probing == CONNECTION_TEST_TIMEOUT
         IN  [timeout |-> RestoreTimeout(original_timeout, probing),
              sent |-> Append(st.sent, [op |-> "probe", timeout |-> probing,
                                        attempts |-> 1, subject_type |-> <<>>]),
              raised |-> ProbeEnd(answer).raised,
              status_code |-> ProbeEnd(answer).status_code]

valid_subject_types ==
    {<<"C", "O", "N", "T", "R", "O", "L", "_", "I", "M", "P", "L", "E", "M", "E", "N", "T", "A", "T", "I", "O", "N">>,
     <<"S", "O", "L", "U", "T", "I", "O", "N", "_", "C", "A", "P", "A", "B", "I", "L", "I", "T", "Y">>}

\* The subject type is compared as given, without upper-casing.
AcceptsExact(subject_type) == subject_type \in valid_subject_types

\* Line 369: "subject_type.upper() not in valid_subject_types", negated.
Accepts(subject_type) == Upper(subject_type) \in valid_subject_types

\* ---- inputs
MaxSessionCalls == 3

ConfigValues == {PyNone, Some(""), Some("v")}

SubjectTypes ==
    {<<"c", "o", "n", "t", "r", "o", "l", "_", "i", "m", "p", "l", "e", "m", "e", "n", "t", "a", "t", "i", "o", "n">>,
     <<"S", "o", "l", "u", "t", "i", "o", "n", "_", "C", "a", "p", "a", "b", "i", "l", "i", "t", "y">>,
     <<"S", "O", "L", "U", "T", "I", "O", "N", "_", "C", "A", "P", "A", "B", "I", "L", "I", "T", "Y">>,
     <<"P", "O", "L", "I", "C", "Y">>,
     <<>>}

EntryPoints == {"main", "get_evidence", "menu"}

\* ---- specification of one process
InitSession ==
    /\ IdleRequest /\ IdleBulk /\ IdleRecon
    /\ IdleDuplicate /\ IdleNormalize /\ IdleClient
    /\ spc = "new"
    /\ api_key \in ConfigValues
    /\ api_url \in ConfigValues
    /\ timeout = DEFAULT_TIMEOUT
    /\ sent = <<>>
    /\ scalls = <<>>

SessionFrame ==
    /\ UNCHANGED <<api_key, api_url>>
    /\ UNCHANGED <<dpc, candidate, existing_list, duplicate_found,
                   npc, name_in, name_out, cpc, calls, last_call>>
    /\ UNCHANGED <<varsReq, varsBulk, varsRecon>>

\* The start of a command line tool: validate_config, then test_connection.
\* main.py and get_evidence.py exit when either raises; menu.py exits on the
\* ValidationError and goes on to its menu after a failed probe.
CliStart ==
    /\ spc = "new"
    /\ \E entry \in EntryPoints, answer \in ProbeAnswers :
          IF validate_config(api_key, api_url) # "none"
          THEN /\ spc' = "exited"
               /\ scalls' = Append(scalls, [op |-> entry, arg |-> <<>>,
                                            raised |-> "ValidationError"])
               /\ UNCHANGED <<timeout, sent>>
          ELSE LET t == test_connection([timeout |-> timeout, sent |-> sent],
                                        api_key, api_url, answer)
               IN  /\ timeout' = t.timeout
                   /\ sent' = t.sent
                   /\ scalls' = Append(scalls, [op |-> entry, arg |-> <<>>,
                                                raised |-> t.raised])
                   /\ spc' = IF t.raised = "none" THEN "ready"
                             ELSE IF t.raised = "APIError" /\ entry = "menu"
                             THEN "ready"
                             ELSE "exited"
    /\ SessionFrame

\* client.test_connection() called on the client as it is (menu.py:1204 is
\* one such call).
TestConnection ==
    /\ spc \in {"new", "ready"} /\ Len(scalls) < MaxSessionCalls
    /\ \E answer \in ProbeAnswers :
          LET t == test_connection([timeout |-> timeout, sent |-> sent],
                                   api_key, api_url, answer)
          IN  /\ timeout' = t.timeout
              /\ sent' = t.sent
              /\ scalls' = Append(scalls, [op |-> "test_connection", arg |-> <<>>,
                                           raised |-> t.raised])
    /\ UNCHANGED spc
    /\ SessionFrame

\* A remote operation after the start, e.g. get_evidence: one _request call
\* with the client's timeout (line 218).
NormalRequest ==
    /\ spc = "ready" /\ Len(scalls) < MaxSessionCalls
    /\ \E r \in RequestOutcomes :
          /\ r.state # "running"
          /\ sent' = Append(sent, [op |-> "request", timeout |-> timeout,
                                   attempts |-> r.attempt, subject_type |-> <<>>])
          /\ scalls' = Append(scalls, [op |-> "request", arg |-> <<>>,
                                       raised |-> IF r.state = "raised"
                                                  THEN "APIError" ELSE "none"])
    /\ UNCHANGED <<spc, timeout>>
    /\ SessionFrame

\* associate_evidence (lines 346-379).
AssociateEvidence ==
    /\ spc = "ready" /\ Len(scalls) < MaxSessionCalls
    /\ \E subject_type \in SubjectTypes :
          IF ~Accepts(subject_type)
          THEN /\ scalls' = Append(scalls, [op |-> "associate", arg |-> subject_type,
                                            raised |-> "ValidationError"])
               /\ UNCHANGED sent
          ELSE \E r \in RequestOutcomes :
                  /\ r.state # "running"
                  /\ sent' = Append(sent, [op |-> "associate", timeout |-> timeout,
                                           attempts |-> r.attempt,
                                           subject_type |-> Upper(subject_type)])
                  /\ scalls' = Append(scalls, [op |-> "associate",
                                               arg |-> subject_type,
                                               raised |-> IF r.state = "raised"
                                                          THEN "APIError"
                                                          ELSE "none"])
    /\ UNCHANGED <<spc, timeout>>
    /\ SessionFrame

NextSession == CliStart \/ TestConnection \/ NormalRequest \/ AssociateEvidence

SpecSession == InitSession /\ [][NextSession]_vars

-----------------------------------------------------------------------------
(* Claims about one _request call, checked under SpecRequest *)

IsClientError(resp) ==
    resp.kind = "http" /\ 400 <= resp.status /\ resp.status <= 499
IsServerError(resp) ==
    resp.kind = "http" /\ 500 <= resp.status /\ resp.status <= 599
IsNetworkFailure(resp) == resp.kind \in {"conn", "timeout", "other"}
IsRetryable(resp) == IsServerError(resp) \/ IsNetworkFailure(resp)
IsSuccess(resp) == resp.kind = "http" /\ resp.status < 400

\* The message an error built from resp carries.
MessageOf(resp) ==
    [text |-> CASE resp.kind = "http" -> "API request failed"
                [] resp.kind = "conn" -> "Connection error"
                [] resp.kind = "timeout" -> "Request timed out"
                [] OTHER -> "Request failed",
     detail |-> resp.status]

\* C3: a call whose response status is in 400-499 is attempted exactly once:
\* the 4xx answer is the call's last attempt, the error is raised at once and
\* no sleep follows it.
C3_ClientErrorAttemptedOnce ==
    \A k \in 1..Len(log) :
        IsClientError(log[k]) =>
            /\ Len(log) = k
            /\ rq.state = "raised"
            /\ Len(rq.slept) = k - 1

\* C4: 5xx answers and network failures are re-attempted until an attempt
\* succeeds or 3 attempts have been made; there is never a 4th attempt, and a
\* successful attempt k <= 3 ends the call with that attempt's result.
C4_RetryUntilSuccessOrThree ==
    /\ Len(log) <= 3
    /\ rq.attempt = Len(log)
    /\ \A k \in 1..Len(log) :
          /\ (IsSuccess(log[k]) =>
                 /\ k = Len(log)
                 /\ rq.state = "returned"
                 /\ rq.result = ResponseJson(log[k]))
          /\ (IsRetryable(log[k]) /\ k = Len(log) /\ k < 3 =>
                 rq.state = "running")
    /\ (rq.state = "running" => Len(log) < 3)

\* C4 witness: 503, 503, 200 succeeds on the third attempt.
C4_Witness ==
    /\ Len(log) = 3
    /\ log[1].status = 503 /\ log[2].status = 503 /\ log[3].status = 200
    /\ rq.state = "returned" /\ rq.attempt = 3
    /\ rq.result = Some("body")

\* C5: when all 3 attempts fail with retryable errors (5xx or network
\* failure) the call ends by raising, and the error raised is the one built
\* from the third attempt's failure.
C5_LastErrorSurfaced ==
    (Len(log) = 3 /\ \A k \in 1..3 : IsRetryable(log[k])) =>
        /\ rq.state = "raised"
        /\ rq.raised.type = "APIError"
        /\ rq.raised.message = MessageOf(log[3])

\* C5 witness: three different retryable failures, the last one surfaced.
C5_Witness ==
    /\ Len(log) = 3
    /\ log[1] = Http(503, "busy") /\ log[2] = Timeout /\ log[3] = ConnectionError
    /\ rq.state = "raised"
    /\ rq.raised.message.text = "Connection error"

-----------------------------------------------------------------------------
(* Claims about the control mapping updater, checked under SpecReconcile *)

\* Rows the loop gives a key to: long enough and with a non-blank identity.
HasKey(row) == Len(row) > CapIdx /\ Strip(Cell(row, CapIdx)) # <<>>
KeyOf(row) == normalize_capability_name(Strip(Cell(row, CapIdx)))
TagsOf(row) == parse_mappings(MappingCell(row))

\* C6: reconciliation is idempotent: the second run, on the first run's
\* output with the same master, changes no row and reports zero rows updated
\* and zero tags added.
C6_Idempotent ==
    (pass = 2 /\ rpc \in {"loop", "done"}) =>
        /\ target_rows = first_output
        /\ capabilities_updated = 0
        /\ mappings_added = 0

\* C6 witness: the second run ended after a first run that changed rows.
C6_Witness ==
    /\ pass = 2 /\ rpc = "done"
    /\ first_output # target_input
    /\ target_rows = first_output

\* C7: reconciliation is additive: every target row keeps every tag it had,
\* and the number of rows and their order (their identity and other columns)
\* are unchanged.
C7_Additive ==
    /\ Len(target_rows) = Len(target_input)
    /\ \A i \in 1..Len(target_input) :
          /\ TagsOf(target_input[i]) \subseteq TagsOf(target_rows[i])
          /\ \A c \in 1..Len(target_input[i]) :
                c # MappingIdx + 1 => target_rows[i][c] = target_input[i][c]

\* C7 witness: a row that had tags was rewritten with more tags.
C7_Witness ==
    /\ rpc = "done" /\ pass = 1
    /\ \E i \in 1..Len(target_input) :
          /\ TagsOf(target_input[i]) # {}
          /\ TagsOf(target_rows[i]) # TagsOf(target_input[i])

\* Distinct elements of a sequence in order of first appearance.
RECURSIVE FirstAppearances(_, _)
FirstAppearances(seen, keys) ==
    IF keys = <<>> THEN seen
    ELSE FirstAppearances(
             IF \E i \in 1..Len(seen) : seen[i] = Head(keys) THEN seen
             ELSE Append(seen, Head(keys)),
             Tail(keys))

\* Keys of the first n rows that have a key absent from the master lookup.
RECURSIVE UnmatchedKeys(_, _)
UnmatchedKeys(rows, n) ==
    IF n = 0 THEN <<>>
    ELSE UnmatchedKeys(rows, n - 1) \o
         (IF HasKey(rows[n]) /\ KeyOf(rows[n]) \notin DOMAIN master_lookup
          THEN <<KeyOf(rows[n])>> ELSE <<>>)

\* C8 (amended): every target row with a non-blank identity field whose
\* normalized key is absent from the master lookup is left unchanged, and its
\* key is listed exactly once in the unmatched report however often it
\* repeats, the report being in order of first appearance in the target.
C8_UnmatchedOnceUnchanged ==
    rpc \in {"loop", "done"} =>
        /\ \A i \in 1..ridx :
              (HasKey(target_input[i])
                  /\ KeyOf(target_input[i]) \notin DOMAIN master_lookup) =>
                  /\ target_rows[i] = target_input[i]
                  /\ Cardinality({j \in 1..Len(capabilities_not_in_master) :
                         capabilities_not_in_master[j] = KeyOf(target_input[i])}) = 1
        /\ capabilities_not_in_master =
               FirstAppearances(<<>>, UnmatchedKeys(target_input, ridx))

\* C8 as claimed, for every target row that has an identity field: a
\* normalized key absent from the master lookup means the row is unchanged
\* and the key is listed exactly once in the unmatched report.
C8_AsClaimed ==
    rpc \in {"loop", "done"} =>
        \A i \in 1..ridx :
            (/\ Len(target_input[i]) > CapIdx
             /\ normalize_capability_name(Cell(target_input[i], CapIdx))
                    \notin DOMAIN master_lookup) =>
                /\ target_rows[i] = target_input[i]
                /\ Cardinality({j \in 1..Len(capabilities_not_in_master) :
                       capabilities_not_in_master[j] =
                           normalize_capability_name(Cell(target_input[i], CapIdx))}) = 1

\* C8 witness: two target rows repeat one unmatched key ("a" and "a:").
C8_Witness ==
    /\ rpc = "done" /\ pass = 1
    /\ Len(target_input) = 2
    /\ HasKey(target_input[1]) /\ HasKey(target_input[2])
    /\ target_input[1] # target_input[2]
    /\ KeyOf(target_input[1]) = KeyOf(target_input[2])
    /\ KeyOf(target_input[1]) \notin DOMAIN master_lookup
    /\ capabilities_not_in_master = <<KeyOf(target_input[1])>>

\* Master rows that contribute to the lookup, and their keys.
MasterKeyed(k) ==
    {i \in 1..Len(master_rows) :
        /\ Len(master_rows[i]) > CapIdx
        /\ normalize_capability_name(Cell(master_rows[i], CapIdx)) = k}

MasterKeys ==
    {normalize_capability_name(Cell(master_rows[i], CapIdx)) :
        i \in {j \in 1..Len(master_rows) : Len(master_rows[j]) > CapIdx}} \ {<<>>}

\* C9: build_master_lookup maps each non-blank normalized key to the union of
\* the tag sets of all master rows sharing that key; a later row never
\* overwrites an earlier one.
C9_LookupIsUnion ==
    rpc \in {"loop", "done"} =>
        /\ DOMAIN master_lookup = MasterKeys
        /\ \A k \in MasterKeys :
              master_lookup[k] = UNION {TagsOf(master_rows[i]) : i \in MasterKeyed(k)}

\* C9 witness: key "A" twice ("A:" with {X}, " A " with {Y, Z}) merges.
C9_Witness ==
    /\ rpc = "loop"
    /\ Len(master_rows) = 2
    /\ TagsOf(master_rows[1]) = {<<"X">>}
    /\ TagsOf(master_rows[2]) = {<<"Y">>, <<"Z">>}
    /\ DOMAIN master_lookup = {<<"A">>}
    /\ master_lookup[<<"A">>] = {<<"X">>, <<"Y">>, <<"Z">>}

-----------------------------------------------------------------------------
(* Claims about create_evidence_bulk, checked under SpecBulk *)

\* C1: the result returned by create_evidence_bulk has total equal to the
\* length of the input list and created + skipped + failed equal to total,
\* for every input (the empty list too) and every mix of remote answers.
C1_BatchAccounting ==
    pc = "done" =>
        /\ results.total = Len(evidence_list)
        /\ results.created + results.skipped + results.failed = results.total

\* C1 witness: a returned result with a created, a skipped and a failed item.
C1_Witness ==
    /\ pc = "done"
    /\ results.created >= 1 /\ results.skipped >= 1 /\ results.failed >= 1

\* C2: a failure on one item never aborts the batch: no exception leaves
\* create_evidence_bulk, a failing item is recorded as failed with its error
\* message, and every later item still gets its own outcome.
C2_FailureNeverAborts ==
    /\ uncaught = "none"
    /\ pc # "aborted"
    /\ (pc = "done" => Len(outcome) = Len(evidence_list))
    /\ \A i \in 1..Len(outcome) :
          outcome[i].kind = "failed" =>
              \E j \in 1..Len(results.failed_items) :
                  results.failed_items[j].error = outcome[i].error

\* An existing record is a duplicate of the item: same referenceId, or the
\* same name after trimming and ignoring case.
Matches(item, rec) ==
    \/ /\ item.name.kind = "str"
       /\ Strip(Lower(item.name.s)) = Strip(Lower(rec.name))
    \/ /\ Truthy(item.referenceid) /\ Truthy(rec.referenceId)
       /\ Strip(item.referenceid.s) = Strip(rec.referenceId.s)

\* C10: with duplicate checking enabled and allow_duplicates false, an item
\* for which a duplicate is found among the existing records (a
\* case-insensitive, trimmed name match included) is marked skipped with the
\* existing record's id and no create request is sent for it; and with 3 items
\* of which only item 2 matches an existing name, all creates succeeding, the
\* result is created=2, skipped=1, failed=0.
C10_DuplicateSkipped ==
    /\ \A i \in 1..Len(outcome) :
          (/\ check_duplicates /\ ~allow_duplicates
           /\ \E k \in 1..Len(existing_evidence) :
                 Matches(evidence_list[i], existing_evidence[k])) =>
              /\ outcome[i].kind = "skipped"
              /\ \E k \in 1..Len(existing_evidence) :
                    /\ Matches(evidence_list[i], existing_evidence[k])
                    /\ outcome[i].existing_id = Some(existing_evidence[k].id)
              /\ posts[i] = 0
              /\ \E j \in 1..Len(results.skipped_items) :
                    Some(results.skipped_items[j].existing_id) = outcome[i].existing_id
    /\ (/\ pc = "done" /\ Len(evidence_list) = 3
        /\ check_duplicates /\ ~allow_duplicates
        /\ \A i \in 1..3 :
              /\ Truthy(evidence_list[i].name)
              /\ (i = 2) <=> \E k \in 1..Len(existing_evidence) :
                                 Matches(evidence_list[i], existing_evidence[k])
        /\ \A i \in 1..3 : posts[i] <= 1 /\ outcome[i].kind # "failed") =>
           /\ results.created = 2 /\ results.skipped = 1 /\ results.failed = 0

\* C10 witness: 3 items, item 2 (" A") matches the existing record "a " only
\* by trimmed, case-insensitive name; it is skipped, the others are created.
C10_Witness ==
    /\ pc = "done" /\ Len(evidence_list) = 3
    /\ check_duplicates /\ ~allow_duplicates
    /\ evidence_list[2].name = Str(<<" ", "A">>)
    /\ existing_evidence # <<>>
    /\ existing_evidence[1].name = <<"a", " ">>
    /\ outcome[2].kind = "skipped" /\ outcome[2].existing_id = Some(1)
    /\ posts = <<1, 0, 1>>
    /\ results.created = 2 /\ results.skipped = 1 /\ results.failed = 0

-----------------------------------------------------------------------------
(* Claims about check_duplicate, checked under SpecDuplicate *)

RefMatches(item, rec) ==
    /\ get_reference_id(item) # PyNone /\ get_reference_id(item) # Some(<<>>)
    /\ Truthy(rec.referenceId)
    /\ Some(Strip(rec.referenceId.s)) = get_reference_id(item)

NameMatches(item, rec) ==
    /\ item.name.kind # "none"
    /\ Strip(Lower(rec.name)) =
           (IF item.name.kind = "str" THEN Strip(Lower(item.name.s)) ELSE <<>>)

\* The first record of the list satisfying P, or PyNone.
FirstWith(P(_), list) ==
    IF \E i \in 1..Len(list) : P(list[i])
    THEN Some(list[CHOOSE i \in 1..Len(list) :
                       P(list[i]) /\ \A j \in 1..(i - 1) : ~P(list[j])])
    ELSE PyNone

\* C11: check_duplicate applies two tiers in order: the first existing record
\* matching by referenceId is returned if there is one, and only when no
\* record matches by referenceId the first record matching by name; so a
\* referenceId match wins over a name-only match earlier in the list.
C11_ReferenceIdTierFirst ==
    dpc = "done" =>
        LET ref(rec) == RefMatches(candidate, rec)
            nam(rec) == NameMatches(candidate, rec)
        IN  duplicate_found =
                IF FirstWith(ref, existing_list) # PyNone
                THEN FirstWith(ref, existing_list)
                ELSE FirstWith(nam, existing_list)

-----------------------------------------------------------------------------
(* Claims about the client's cache, checked under SpecClient *)

\* C12: after any successful create_evidence, update_evidence or
\* delete_evidence call the cache of existing evidence is cleared (None), so
\* that a later get_all_evidence never returns a pre-mutation list.
C12_CacheClearedAfterMutation ==
    /\ (last_call.op \in {"create", "update", "delete"} /\ last_call.ok) =>
           evidence_cache = PyNone
    /\ (last_call.op = "get_all" /\ last_call.ok) => last_call.returned = remote

-----------------------------------------------------------------------------
(* Further claims about create_evidence_bulk, checked under SpecBulk *)

\* The final status notified for an outcome.
FinalStatus(kind) == IF kind = "created" THEN "success" ELSE kind

\* C13: with a progress callback supplied, each item i (1-based) produces
\* exactly two notifications, in this order: one with status 'processing',
\* then one with the final status (success, skipped or failed) that agrees
\* with the outcome counted for the item; both carry current = i and
\* total = len(items), and item i's notifications precede item i+1's.
C13_TwoNotificationsPerItem ==
    progress_callback =>
        /\ Len(progress) = 2 * Len(outcome)
        /\ (pc \in {"done", "aborted"} => Len(outcome) = Len(evidence_list))
        /\ \A i \in 1..Len(outcome) :
              /\ progress[2 * i - 1].status = "processing"
              /\ progress[2 * i].status = FinalStatus(outcome[i].kind)
              /\ progress[2 * i - 1].current = i
              /\ progress[2 * i].current = i
              /\ progress[2 * i - 1].total = Len(evidence_list)
              /\ progress[2 * i].total = Len(evidence_list)

\* The item carries no non-empty name.
Nameless(item) == ~Truthy(item.name)

\* C14: data with no non-empty name makes create_evidence raise
\* ValidationError without any request to the remote store, and inside
\* create_evidence_bulk such an item is counted as failed.
C14_NamelessItemFailsUnsent ==
    /\ \A i \in 1..Len(outcome) :
          (Nameless(evidence_list[i]) /\ outcome[i].kind # "skipped") =>
              /\ outcome[i].kind = "failed"
              /\ outcome[i].error = NameRequired
              /\ posts[i] = 0
    /\ pc \in {"done", "aborted"} =>
          \A i \in 1..Len(evidence_list) :
              Nameless(evidence_list[i]) =>
                  /\ i <= Len(outcome)
                  /\ outcome[i].kind \in {"failed", "skipped"}
    /\ pc = "done" =>
          results.failed >= Cardinality({i \in 1..Len(outcome) :
                                Nameless(evidence_list[i])
                                /\ outcome[i].kind # "skipped"})

\* The indices of the items with the given outcome, in increasing order.
RECURSIVE IndicesOf(_, _)
IndicesOf(kind, n) ==
    IF n = 0 THEN <<>>
    ELSE IF outcome[n].kind = kind THEN Append(IndicesOf(kind, n - 1), n)
    ELSE IndicesOf(kind, n - 1)

\* The number of entries of the sequence equal to x.
Count(q, x) == Cardinality({k \in 1..Len(q) : q[k] = x})

\* C20: items are processed strictly in input order, one at a time: every
\* remote attempt for item i (retries included) completes before any attempt
\* for item i+1 starts, and the created, skipped and failed item lists each
\* keep the relative input order of their items.
C20_InputOrderKept ==
    /\ \A k \in 1..Len(wire) - 1 : wire[k] <= wire[k + 1]
    /\ \A k \in 1..Len(wire) : wire[k] \in 1..Len(outcome)
    /\ \A i \in 1..Len(outcome) : Count(wire, i) = posts[i]
    /\ LET created == IndicesOf("created", Len(outcome))
           skipped == IndicesOf("skipped", Len(outcome))
           failed == IndicesOf("failed", Len(outcome))
       IN
       /\ Len(results.created_items) = Len(created)
       /\ \A j \in 1..Len(created) :
             Str(results.created_items[j].name) = evidence_list[created[j]].name
       /\ Len(results.skipped_items) = Len(skipped)
       /\ \A j \in 1..Len(skipped) :
             results.skipped_items[j].name = DisplayName(evidence_list[skipped[j]])
       /\ Len(results.failed_items) = Len(failed)
       /\ \A j \in 1..Len(failed) :
             /\ results.failed_items[j].name = DisplayName(evidence_list[failed[j]])
             /\ results.failed_items[j].error = outcome[failed[j]].error

\* C20 witness: "b" is created at its second attempt, then " A" at its
\* third, then a nameless item fails, and the lists hold them in that order.
C20_Witness ==
    /\ pc = "done"
    /\ wire = <<1, 1, 2, 2, 2>>
    /\ Len(evidence_list) = 3
    /\ evidence_list[1].name = Str(<<"b">>)
    /\ evidence_list[2].name = Str(<<" ", "A">>)
    /\ results.created = 2 /\ results.failed = 1
    /\ results.created_items[1].name = <<"b">>
    /\ results.created_items[2].name = <<" ", "A">>

-----------------------------------------------------------------------------
(* Claims about normalize_capability_name, checked under SpecNormalize *)

\* The text with its leading and trailing blanks removed, defined by position.
Trimmed(s) ==
    LET keep == {k \in 1..Len(s) : ~IsSpace(s[k])} IN
    IF keep = {} THEN <<>>
    ELSE SubSeq(s, CHOOSE k \in keep : \A m \in keep : k <= m,
                   CHOOSE k \in keep : \A m \in keep : m <= k)

\* The text up to its last character that is not a colon.
BeforeTrailingColons(s) ==
    LET keep == {k \in 1..Len(s) : s[k] # ":"} IN
    IF keep = {} THEN <<>>
    ELSE SubSeq(s, 1, CHOOSE k \in keep : \A m \in keep : m <= k)

\* The text without its last character when that is a colon.
BeforeOneColon(s) ==
    IF s # <<>> /\ s[Len(s)] = ":" THEN SubSeq(s, 1, Len(s) - 1) ELSE s

\* C15 (amended): normalize_capability_name trims whitespace, strips every
\* trailing ':' and trims again, so "A::" and "A:" both give the key "A";
\* the result is case-sensitive ("a" and "A" stay different keys).
C15_AllTrailingColonsStripped ==
    npc = "done" =>
        /\ name_out = Trimmed(BeforeTrailingColons(Trimmed(name_in)))
        /\ (name_in = <<"A", ":", ":">> => name_out = <<"A">>)
        /\ (name_in = <<"a">> => name_out # <<"A">>)

\* C15 as claimed: whitespace is trimmed, exactly one trailing ':' is
\* stripped and the rest trimmed again, so "A::" keeps one colon ("A:") and
\* differs from the key "A".
C15_AsClaimed ==
    npc = "done" =>
        /\ name_out = Trimmed(BeforeOneColon(Trimmed(name_in)))
        /\ (name_in = <<"A", ":", ":">> => name_out = <<"A", ":">>)

\* C15 witness: "A::" has been normalized to "A".
C15_Witness ==
    /\ npc = "done"
    /\ name_in = <<"A", ":", ":">>
    /\ name_out = <<"A">>

-----------------------------------------------------------------------------
(* Further claims about the updater, checked under SpecReconcile *)

\* Tags the master holds for the row's key and the row lacks.
MissingOf(row) == master_lookup[KeyOf(row)] \ TagsOf(row)

\* The row has a key known to the master.
Matched(row) == HasKey(row) /\ KeyOf(row) \in DOMAIN master_lookup

\* Among the first n input rows, those that lack a master tag.
RowsToUpdate(n) ==
    {i \in 1..n : Matched(target_input[i]) /\ MissingOf(target_input[i]) # {}}

RECURSIVE SumMissing(_)
SumMissing(n) ==
    IF n = 0 THEN 0
    ELSE SumMissing(n - 1) +
         (IF n \in RowsToUpdate(n) THEN Cardinality(MissingOf(target_input[n])) ELSE 0)

\* The cell lists exactly the tags of the set, one per line, in strictly
\* increasing lexicographic order.
SortedLinesOf(cell, tags) ==
    LET parts == SplitLines(cell) IN
    /\ {parts[k] : k \in 1..Len(parts)} = tags
    /\ \A k \in 1..Len(parts) - 1 : StrLess(parts[k], parts[k + 1])

\* C16: for each target row whose key is in the master lookup and whose
\* missing set is non-empty, the row's tags become the sorted union of its
\* tags and the missing tags; rowsUpdated counts exactly those rows and
\* tagsAdded is the sum of their missing-set sizes, growing by 1 and by the
\* size of the missing set at each such row.
C16_MergeAndCount ==
    (pass = 1 /\ rpc \in {"loop", "done"}) =>
        /\ capabilities_updated = Cardinality(RowsToUpdate(ridx))
        /\ mappings_added = SumMissing(ridx)
        /\ \A i \in RowsToUpdate(ridx) :
              SortedLinesOf(MappingCell(target_rows[i]),
                            TagsOf(target_input[i]) \cup MissingOf(target_input[i]))

\* C16 witness: master "A:" {X} against target "A: " {Z, Y} gives the tags
\* X, Y, Z in this order, one row updated and one tag added.
C16_Witness ==
    /\ pass = 1 /\ rpc = "done"
    /\ Len(master_rows) = 1 /\ Cell(master_rows[1], CapIdx) = <<"A", ":">>
    /\ Len(target_input) = 1
    /\ MappingCell(target_input[1]) = <<"Z", "\n", "Y">>
    /\ MappingCell(target_rows[1]) = <<"X", "\n", "Y", "\n", "Z">>
    /\ capabilities_updated = 1 /\ mappings_added = 1

\* The row's identity field is empty or only whitespace.
BlankIdentity(row) == Len(row) > CapIdx /\ Strip(Cell(row, CapIdx)) = <<>>

\* C17: a target row whose identity field is blank is skipped entirely (not
\* modified, not counted as updated, no entry in the unmatched report), and
\* the unmatched report never contains an empty key.
C17_BlankSkippedNoEmptyKey ==
    (pass = 1 /\ rpc \in {"loop", "done"}) =>
        /\ \A i \in 1..ridx :
              BlankIdentity(target_input[i]) => target_rows[i] = target_input[i]
        /\ capabilities_updated <=
               Cardinality({i \in 1..ridx : ~BlankIdentity(target_input[i])})
        /\ Len(capabilities_not_in_master) <=
               Cardinality({i \in 1..ridx : ~BlankIdentity(target_input[i])})
        /\ \A j \in 1..Len(capabilities_not_in_master) :
              capabilities_not_in_master[j] # <<>>

\* The row's key is in the master lookup and the row holds every master tag.
Complete(row) == Matched(row) /\ MissingOf(row) = {}

\* C18: a target row whose key is in the master lookup and which already
\* holds every master tag is left unchanged (tags not rewritten, re-sorted or
\* de-duplicated, no column added) and is not counted in rowsUpdated.
C18_CompleteRowUntouched ==
    (pass = 1 /\ rpc \in {"loop", "done"}) =>
        /\ \A i \in 1..ridx :
              Complete(target_input[i]) => target_rows[i] = target_input[i]
        /\ capabilities_updated <=
               Cardinality({i \in 1..ridx : ~Complete(target_input[i])})

\* C18 witness: target "A: " holds Z, Y (unsorted) and the master holds
\* {Y, Z} for "A"; the run ends with the row as it was and nothing counted.
C18_Witness ==
    /\ pass = 1 /\ rpc = "done"
    /\ Len(target_input) = 1
    /\ Complete(target_input[1])
    /\ MappingCell(target_input[1]) = <<"Z", "\n", "Y">>
    /\ master_lookup[<<"A">>] = {<<"Y">>, <<"Z">>}
    /\ target_rows = target_input
    /\ capabilities_updated = 0

-----------------------------------------------------------------------------
(* Further claims about _request, checked under SpecRequest *)

\* C19: a delay of RETRY_DELAY * attemptNumber is taken before each retry
\* (1 after the first failed attempt, 2 after the second), exactly one delay
\* separates two consecutive attempts, and no delay follows the final attempt
\* or a successful attempt.
C19_LinearDelayBetweenAttempts ==
    /\ \A k \in 1..Len(rq.slept) : rq.slept[k] = RETRY_DELAY * k
    /\ (Len(rq.slept) >= 1 => rq.slept[1] = 1)
    /\ (Len(rq.slept) >= 2 => rq.slept[2] = 2)
    /\ (rq.state = "running" => Len(rq.slept) = Len(log))
    /\ (rq.state \in {"returned", "raised"} => Len(rq.slept) = Len(log) - 1)

\* C19 witness: three failed attempts, delays of 1 and 2 between them and
\* none after the third.
C19_Witness ==
    /\ rq.state = "raised"
    /\ Len(log) = 3
    /\ rq.slept = <<1, 2>>

\* C21: whenever a _request call ends because the remote store answered with
\* a non-2xx status, the raised error carries that response's status code and
\* raw body: status_code equals the response status and is never None.
C21_ErrorCarriesStatusAndBody ==
    (rq.state = "raised" /\ log[Len(log)].kind = "http") =>
        /\ rq.raised.status_code # PyNone
        /\ rq.raised.status_code = Some(log[Len(log)].status)
        /\ rq.raised.response_text = Some(log[Len(log)].text)

\* C30: the request that creates one item's record is carried out by the
\* remote store at most once, even when an attempt is carried out but its
\* answer is lost to a timeout or arrives as a server error and the request
\* is sent again; and a call that ends by raising (the item is then reported
\* as failed) has created no record.
C30_AtMostOneRecordPerItem ==
    /\ applied <= 1
    /\ (rq.state = "raised" => applied = 0)

-----------------------------------------------------------------------------
(* Claims about one updater run and its saving, checked under SpecSave *)

\* C23: the target file is written only when at least one row was updated
\* and the run is not a dry run; a write is always preceded by the creation
\* of a backup copy; in a dry run neither a backup nor a write ever happens.
C23_BackupThenWriteUnlessDry ==
    /\ \A k \in 1..Len(file_ops) :
          file_ops[k] = "write" =>
              /\ capabilities_updated > 0 /\ ~dry_run
              /\ k > 1 /\ file_ops[k - 1] = "backup"
    /\ (dry_run => file_ops = <<>>)
    /\ (capabilities_updated = 0 => file_ops = <<>>)
    /\ (rpc = "done" /\ capabilities_updated > 0 /\ ~dry_run =>
           file_ops = <<"backup", "write">>)

\* C23 witness: a dry run that updated a row in memory ended with no file
\* touched.
C23_Witness ==
    /\ rpc = "done" /\ dry_run
    /\ capabilities_updated > 0
    /\ target_rows # target_input
    /\ file_ops = <<>>

\* C28: after reconciliation every target row with a non-blank key present
\* in the master lookup holds every master tag of that key, rows too short
\* to have a tags column and rows sharing one key included.
C28_MatchedRowsHoldMasterTags ==
    rpc \in {"loop", "done", "failed"} =>
        \A i \in 1..ridx :
            (/\ Len(target_input[i]) > CapIdx
             /\ Strip(Cell(target_input[i], CapIdx)) # <<>>
             /\ KeyOf(target_input[i]) \in DOMAIN master_lookup) =>
                master_lookup[KeyOf(target_input[i])] \subseteq TagsOf(target_rows[i])

\* C28 witness: the short row "A" and the row "A: " share the key "A", whose
\* master tags are {Y, Z}; after the run both hold them.
C28_Witness ==
    /\ rpc = "done"
    /\ Len(target_input) = 2
    /\ Len(target_input[1]) = 1
    /\ target_input[1] # target_input[2]
    /\ KeyOf(target_input[1]) = KeyOf(target_input[2])
    /\ master_lookup = (<<"A">> :> {<<"Y">>, <<"Z">>})
    /\ TagsOf(target_rows[1]) = {<<"Y">>, <<"Z">>}
    /\ TagsOf(target_rows[2]) = {<<"Y">>, <<"Z">>}

-----------------------------------------------------------------------------
(* Idempotence of normalize_capability_name, checked under SpecNormalize *)

\* C27: normalize_capability_name is idempotent: normalizing the already
\* normalized name yields the same string.
C27_NormalizeIdempotent ==
    npc = "done" => normalize_capability_name(name_out) = name_out

-----------------------------------------------------------------------------
(* Claims about the fetch of existing records and about duplicates inside   *)
(* one batch, checked under SpecBulk                                        *)

\* Duplicate checking was asked for and the initial get_all_evidence raised.
FetchFailed == check_duplicates /\ pc # "start" /\ evidence_cache = PyNone

\* C26: if duplicate checking is enabled but the initial fetch of existing
\* records fails with a remote error, every item is still processed: nothing
\* is skipped, create is attempted for each item (a request is sent for each
\* item that has a name) and created + failed = total.
C26_FetchFailureStillProcessesAll ==
    FetchFailed =>
        /\ pc # "aborted" /\ uncaught = "none"
        /\ existing_evidence = <<>>
        /\ \A i \in 1..Len(outcome) :
              /\ outcome[i].kind \in {"created", "failed"}
              /\ (Truthy(evidence_list[i].name) => posts[i] >= 1)
        /\ results.skipped = 0
        /\ (pc = "done" =>
               /\ Len(outcome) = Len(evidence_list)
               /\ results.created + results.failed = results.total)

\* C26 witness: the fetch failed with a record "a " in the remote store; the
\* items " A" (not recognised as its duplicate) and None were both processed,
\* one created and one failed.
C26_Witness ==
    /\ FetchFailed /\ pc = "done"
    /\ remote # <<>> /\ remote[1].name = <<"a", " ">>
    /\ Len(evidence_list) = 2
    /\ evidence_list[1].name = Str(<<" ", "A">>)
    /\ evidence_list[2].name = NoneVal
    /\ outcome[1].kind = "created" /\ outcome[2].kind = "failed"
    /\ results.created = 1 /\ results.failed = 1 /\ results.skipped = 0

\* C29: in one run with duplicate checking enabled and allow_duplicates
\* false, no two records with the same trimmed, case-insensitive name are
\* created: when two items of the batch share a name and the first is
\* created, the second is skipped.
C29_NoDuplicateWithinBatch ==
    (check_duplicates /\ ~allow_duplicates /\ ~FetchFailed) =>
        \A i, j \in 1..Len(outcome) :
            (/\ i < j
             /\ Truthy(evidence_list[i].name) /\ Truthy(evidence_list[j].name)
             /\ Strip(Lower(evidence_list[i].name.s)) =
                    Strip(Lower(evidence_list[j].name.s))
             /\ outcome[i].kind = "created") =>
                outcome[j].kind = "skipped"

-----------------------------------------------------------------------------
(* Claims about test_connection, the configuration check and                *)
(* associate_evidence, checked under SpecSession                            *)

\* C22: the shorter probe timeout is in force only during the probe: after
\* any test_connection call has returned or raised, the client's timeout is
\* the normal-operation timeout it had before, so that no later request is
\* sent with the probe timeout.
C22_ProbeTimeoutRestored ==
    /\ timeout = DEFAULT_TIMEOUT
    /\ \A k \in 1..Len(sent) :
          /\ (sent[k].op = "probe" => sent[k].timeout = CONNECTION_TEST_TIMEOUT)
          /\ (sent[k].op # "probe" => sent[k].timeout = DEFAULT_TIMEOUT)

\* C22 witness: a test_connection call raised, and the request made after it
\* was sent with the normal timeout.
C22_Witness ==
    /\ Len(scalls) = 3 /\ Len(sent) = 3
    /\ scalls[2].op = "test_connection" /\ scalls[2].raised = "APIError"
    /\ scalls[3].op = "request"
    /\ sent[2].op = "probe" /\ sent[2].timeout = 10
    /\ sent[3].op = "request" /\ sent[3].timeout = 30

\* C24: with a missing API key or API URL, test_connection raises the
\* configuration error without sending a request, and the command line entry
\* points exit without any remote operation.
C24_ConfigErrorBeforeAnyRequest ==
    (api_key \in {PyNone, Some("")} \/ api_url \in {PyNone, Some("")}) =>
        /\ sent = <<>>
        /\ spc \in {"new", "exited"}
        /\ \A k \in 1..Len(scalls) : scalls[k].raised = "ValidationError"
        /\ \A k \in 1..Len(scalls) :
              scalls[k].op \in {"main", "get_evidence", "menu"} => spc = "exited"

\* C24 witness: no API key; test_connection raised, then the tool started and
\* exited, and nothing was sent.
C24_Witness ==
    /\ api_key = PyNone /\ api_url = Some("v")
    /\ Len(scalls) = 2
    /\ scalls[1].op = "test_connection" /\ scalls[1].raised = "ValidationError"
    /\ scalls[2].op = "main" /\ scalls[2].raised = "ValidationError"
    /\ spc = "exited"
    /\ sent = <<>>

IsAssociateRequest(e) == e.op = "associate"
IsAcceptedAssociate(c) == c.op = "associate" /\ c.raised # "ValidationError"

\* C25: associate_evidence accepts a subject type only if, upper-cased, it is
\* CONTROL_IMPLEMENTATION or SOLUTION_CAPABILITY; any other subject type
\* raises ValidationError and sends nothing; an accepted one sends exactly one
\* association request (through the retry layer) with the upper-cased type,
\* repeated associations being sent again each time.
C25_SubjectTypeChecked ==
    LET accepted == SelectSeq(scalls, IsAcceptedAssociate)
        requests == SelectSeq(sent, IsAssociateRequest)
    IN  /\ \A k \in 1..Len(scalls) :
              scalls[k].op = "associate" =>
                  (scalls[k].raised = "ValidationError"
                      <=> Upper(scalls[k].arg) \notin
                              {<<"C", "O", "N", "T", "R", "O", "L", "_", "I", "M", "P", "L", "E", "M", "E", "N", "T", "A", "T", "I", "O", "N">>,
                               <<"S", "O", "L", "U", "T", "I", "O", "N", "_", "C", "A", "P", "A", "B", "I", "L", "I", "T", "Y">>})
        /\ Len(requests) = Len(accepted)
        /\ \A j \in 1..Len(requests) :
              /\ requests[j].subject_type = Upper(accepted[j].arg)
              /\ requests[j].attempts \in 1..MAX_RETRIES

\* C25 witness: "control_implementation" was associated twice and sent twice,
\* upper-cased.
C25_Witness ==
    /\ Len(scalls) = 3 /\ Len(sent) = 3
    /\ scalls[2].op = "associate" /\ scalls[3].op = "associate"
    /\ scalls[2].arg = scalls[3].arg
    /\ scalls[2].arg[1] = "c"
    /\ sent[2].subject_type = sent[3].subject_type
    /\ sent[2].subject_type[1] = "C"
    /\ sent[2].attempts = 3
=============================================================================
